---- MODULE Spec2Model ----
(***************************************************************************)
(* CryptoBobomb: the Telegram webhook (api/webhook.py, webhook) with its   *)
(* watchlist table in Supabase, the sentiment and price adapters, and the  *)
(* 30-minute cron job (api/webhook.py, cron_job).                          *)
(*                                                                         *)
(* Strings stand for the texts the code builds; a coin is a number, and    *)
(* the order of the numbers is the order sorted() gives the coin names.    *)
(***************************************************************************)
EXTENDS Integers, Sequences, FiniteSets, TLC

VARIABLES
    supabase,        \* the Supabase client was created (webhook.py:17-26)
    TELEGRAM_TOKEN,  \* the bot token is configured (webhook.py:13)
    rows,            \* table 'watchlist': number of rows per (chat_id, coin)
    last,            \* the webhook call handled last: update, outcome, reply
    cronPc,          \* cron_job: "idle", "loop", "blocked", "done"
    listAll,         \* cron_job: what the store answered to select('*')
    user_coins,      \* cron_job: the snapshot grouped by chat_id, in dict order
    ui,              \* cron_job: index in user_coins of the chat being processed
    ci,              \* cron_job: index of the next coin of that chat
    messages,        \* cron_job: the lines built for the current chat
    processed_users, \* cron_job: the counter reported as users_notified
    result,          \* cron_job: the HTTP answer of the run
    sendLog,         \* per chat: how Telegram answered the run's sendMessage calls
    sentimentCalls   \* per coin: analyze_sentiment calls made by the run

webVars == <<supabase, TELEGRAM_TOKEN, rows, last>>
cronVars == <<cronPc, listAll, user_coins, ui, ci, messages, processed_users, result,
              sendLog, sentimentCalls>>
vars == <<supabase, TELEGRAM_TOKEN, rows, last, cronPc, listAll, user_coins, ui, ci,
          messages, processed_users, result, sendLog, sentimentCalls>>

(* Bounds of the model *)
NumSubs == 2
NumCoins == 2

Subscribers == 1..NumSubs
Coins == 1..NumCoins
NoCoin == 0          \* a command sent without an argument (len(parts) <= 1)
Pairs == Subscribers \X Coins
EmptyTable == [p \in Pairs |-> 0]

(***************************************************************************)
(* The store: one row per insert; the table's unique constraint on         *)
(* (chat_id, coin) makes a second insert raise PG error 23505.             *)
(***************************************************************************)
RowOrders == {"asc", "desc"}   \* select has no ORDER BY: two scan orders

InsertNoUnique(t, p) == [table |-> [t EXCEPT ![p] = @ + 1], raised |-> "none"]

Insert(t, p) ==
    IF t[p] > 0
    THEN [table |-> t, raised |-> "23505"]
    ELSE [table |-> [t EXCEPT ![p] = 1], raised |-> "none"]

DeleteAllOfChat(t, p) ==
    [table |-> [q \in Pairs |-> IF q[1] = p[1] THEN 0 ELSE t[q]], deleted |-> t[p]]

Delete(t, p) == [table |-> [t EXCEPT ![p] = 0], deleted |-> t[p]]

RECURSIVE Repeat(_, _)
Repeat(x, n) == IF n = 0 THEN <<>> ELSE <<x>> \o Repeat(x, n - 1)

RECURSIVE Reverse(_)
Reverse(s) == IF s = <<>> THEN <<>> ELSE Reverse(Tail(s)) \o <<Head(s)>>

PairAt(i) == <<((i - 1) \div NumCoins) + 1, ((i - 1) % NumCoins) + 1>>

RECURSIVE Scan(_, _)
Scan(t, i) ==
    IF i > NumSubs * NumCoins THEN <<>>
    ELSE Repeat([chat_id |-> PairAt(i)[1], coin |-> PairAt(i)[2]], t[PairAt(i)])
         \o Scan(t, i + 1)

\* select('*'): every row of the table, in the order of the scan
SelectAll(t, o) == IF o = "asc" THEN Scan(t, 1) ELSE Reverse(Scan(t, 1))

RECURSIVE ScanChat(_, _, _)
ScanChat(t, cid, c) ==
    IF c > NumCoins THEN <<>>
    ELSE Repeat(c, t[<<cid, c>>]) \o ScanChat(t, cid, c + 1)

\* select('coin').eq('chat_id', cid), then [row['coin'] for row in response.data]:
\* the coins of the rows of that chat, in the order of the scan
SelectCoins(t, cid, o) ==
    IF o = "asc" THEN ScanChat(t, cid, 1) ELSE Reverse(ScanChat(t, cid, 1))

(***************************************************************************)
(* analyze_sentiment: what the function returns for each behaviour of its  *)
(* upstream (NEWS_API_KEY, the Gemini client, NewsAPI, Gemini).            *)
(***************************************************************************)
NoResponse == {"news_no_response", "gemini_no_response"}  \* requests.get / generate_content never returns
Upstream == {"no_news_key", "no_client", "news_exception", "news_http_error",
             "no_headlines", "gemini_exception", "BULLISH", "BEARISH", "NEUTRAL"}
              \cup NoResponse
\* the behaviours drawn per coin when a whole watchlist is aggregated
AggUpstream == {"BULLISH", "BEARISH", "gemini_exception", "news_no_response"}

analyze_sentiment_raises(up) ==
    CASE up = "no_news_key" -> "Error: NEWS_API_KEY not configured."
      [] up = "no_client" -> "Error: Gemini Client not initialized (check GEMINI_API_KEY)."
      [] up = "news_http_error" -> "Error fetching news: Unknown error"
      [] up = "no_headlines" -> "No recent news found."
      [] up \in {"news_exception", "gemini_exception"} -> "RAISE"
      [] OTHER -> up

analyze_sentiment(up) ==
    CASE up = "no_news_key" -> "Error: NEWS_API_KEY not configured."
      [] up = "no_client" -> "Error: Gemini Client not initialized (check GEMINI_API_KEY)."
      [] up = "news_http_error" -> "Error fetching news: Unknown error"
      [] up = "no_headlines" -> "No recent news found."
      [] up \in {"news_exception", "gemini_exception"} -> "Error analyzing sentiment"
      [] OTHER -> up   \* response.text.strip(): the verdict Gemini wrote

\* the texts in which test_manual.py's check `"Error" in result` finds a failure
ErrorTexts == {"Error: NEWS_API_KEY not configured.",
               "Error: Gemini Client not initialized (check GEMINI_API_KEY).",
               "Error fetching news: Unknown error", "Error analyzing sentiment"}
\* the behaviours of the upstream that are a failure of the provider
Failures == {"no_news_key", "no_client", "news_exception", "news_http_error",
             "gemini_exception"}

(***************************************************************************)
(* get_crypto_prices: the coins the returned mapping has an entry for.     *)
(* A response is the status of CoinGecko's answer and the ids it quotes.   *)
(***************************************************************************)
PriceResponses ==
    {[kind |-> "ok", quoted |-> q] : q \in SUBSET Coins}
    \cup {[kind |-> k, quoted |-> {}] : k \in {"http_error", "exception", "no_response"}}

get_crypto_prices(coins, resp) ==
    IF coins = <<>> THEN {}
    ELSE IF resp.kind = "ok" THEN resp.quoted
    ELSE {}

(***************************************************************************)
(* /watchlist: the message built from the coins read for one chat.         *)
(***************************************************************************)
RECURSIVE InsertSorted(_, _)
InsertSorted(x, s) ==
    IF s = <<>> THEN <<x>>
    ELSE IF x <= Head(s) THEN <<x>> \o s
    ELSE <<Head(s)>> \o InsertSorted(x, Tail(s))

RECURSIVE sorted(_)
sorted(s) == IF s = <<>> THEN <<>> ELSE InsertSorted(Head(s), sorted(Tail(s)))

Emoji(sentiment) ==
    IF sentiment = "BULLISH" THEN "green"
    ELSE IF sentiment = "BEARISH" THEN "red"
    ELSE "white"

WatchlistLine(coin, prices, sentiment) ==
    [coin |-> coin,
     emoji |-> Emoji(sentiment),
     price |-> IF coin \in prices THEN "usd" ELSE "N/A",
     sentiment |-> sentiment]

\* the for loop over sorted(coins); ups[i] is the upstream's behaviour for the i-th call
WatchlistLines(coins, prices, ups) ==
    [i \in 1..Len(coins) |-> WatchlistLine(sorted(coins)[i], prices, analyze_sentiment(ups[i]))]

\* the try block of the /watchlist branch, after the select returned `coins`
WatchlistReply(coins, resp, ups) ==
    IF coins = <<>>
    THEN [reply |-> "Your watchlist is empty. Use /track [coin] to add one.", lines |-> <<>>]
    ELSE LET lines == WatchlistLines(coins, get_crypto_prices(coins, resp), ups)
         IN  IF \E i \in 1..Len(lines) : lines[i].sentiment = "RAISE"
             THEN [reply |-> "Error fetching watchlist", lines |-> <<>>]
             ELSE [reply |-> "Your Watchlist", lines |-> lines]

(***************************************************************************)
(* The webhook, one action per branch of its command dispatch.  `last` is  *)
(* the call just handled: the update, what the store and the providers     *)
(* answered, reply_text, and how many sendMessage posts were made.         *)
(***************************************************************************)
StoreResponses == {"ok", "unavailable"}   \* execute() returns, or raises another error

Call(cmd, cid, coin, store, reply, sent) ==
    [cmd |-> cmd, chat_id |-> cid, coin |-> coin, store |-> store, reply |-> reply,
     coins |-> <<>>, lines |-> <<>>, upstream |-> <<>>, sent |-> sent, status |-> "200"]

NoCall == Call("none", 0, NoCoin, "none", "", 0)

\* `if TELEGRAM_TOKEN: requests.post(.../sendMessage ...)`
Posts == IF TELEGRAM_TOKEN THEN 1 ELSE 0

TrackReplyNoDuplicateCheck(raised) ==
    IF raised = "none" THEN "Added to your watchlist." ELSE "Error adding coin"

\* reply_text of the /track branch, from what insert(...).execute() raised
TrackReply(raised) ==
    IF raised = "none" THEN "Added to your watchlist."
    ELSE IF raised = "23505" THEN "is already in your watchlist."
    ELSE "Error adding coin"

\* reply_text of the /untrack branch, from the rows delete(...).execute() returned
UntrackReply(deleted) ==
    IF deleted > 0 THEN "Removed from your watchlist." ELSE "was not in your watchlist."

Start(cid) ==
    /\ last' = Call("start", cid, NoCoin, "none", "Welcome to CryptoBobomb!", Posts)
    /\ UNCHANGED <<supabase, TELEGRAM_TOKEN, rows>>

SentimentCmd(cid, coin, up) ==
    /\ coin = NoCoin => up = "BULLISH"
    /\ last' = IF coin = NoCoin
               THEN Call("sentiment", cid, coin, "none",
                         "Please provide a coin. Example: /sentiment bitcoin", Posts)
               ELSE IF up \in NoResponse
               THEN [Call("sentiment", cid, coin, "none", "", 0) EXCEPT !.status = "blocked"]
               ELSE Call("sentiment", cid, coin, "none", analyze_sentiment(up), Posts)
    /\ UNCHANGED <<supabase, TELEGRAM_TOKEN, rows>>

Track(cid, coin, resp) ==
    /\ (coin = NoCoin \/ ~supabase) => resp = "ok"
    /\ IF coin # NoCoin /\ supabase
       THEN IF resp = "ok"
            THEN LET r == Insert(rows, <<cid, coin>>)
                 IN  /\ rows' = r.table
                     /\ last' = Call("track", cid, coin, "ok", TrackReply(r.raised), Posts)
            ELSE /\ rows' = rows
                 /\ last' = Call("track", cid, coin, "unavailable", TrackReply("other"), Posts)
       ELSE /\ rows' = rows
            /\ last' = Call("track", cid, coin, "none",
                            IF ~supabase THEN "Database not configured."
                            ELSE "Usage: /track [coin]", Posts)
    /\ UNCHANGED <<supabase, TELEGRAM_TOKEN>>

Untrack(cid, coin, resp) ==
    /\ (coin = NoCoin \/ ~supabase) => resp = "ok"
    /\ IF coin # NoCoin /\ supabase
       THEN IF resp = "ok"
            THEN LET r == Delete(rows, <<cid, coin>>)
                 IN  /\ rows' = r.table
                     /\ last' = Call("untrack", cid, coin, "ok", UntrackReply(r.deleted), Posts)
            ELSE /\ rows' = rows
                 /\ last' = Call("untrack", cid, coin, "unavailable", "Error removing coin", Posts)
       ELSE /\ rows' = rows
            /\ last' = Call("untrack", cid, coin, "none",
                            IF ~supabase THEN "Database not configured."
                            ELSE "Usage: /untrack [coin]", Posts)
    /\ UNCHANGED <<supabase, TELEGRAM_TOKEN>>

\* the calls of the /watchlist branch that may never return: the price request, then
\* one analyze_sentiment per coin
Blocks(coins, price, ups) ==
    /\ coins # <<>>
    /\ \/ price.kind = "no_response"
       \/ \E i \in 1..Len(ups) : ups[i] \in NoResponse

\* `prices` and `upstreams` are the behaviours the providers are drawn from
Watchlist(cid, resp, o, prices, upstreams) ==
    /\ IF ~supabase
       THEN /\ resp = "ok" /\ o = "asc"
            /\ last' = Call("watchlist", cid, NoCoin, "none", "Database not configured.", Posts)
       ELSE IF resp # "ok"
       THEN /\ o = "asc"
            /\ last' = Call("watchlist", cid, NoCoin, "unavailable",
                            "Error fetching watchlist", Posts)
       ELSE LET coins == SelectCoins(rows, cid, o)
            IN  \E price \in (IF coins = <<>> THEN {[kind |-> "ok", quoted |-> {}]}
                              ELSE prices),
                   ups \in [1..Len(coins) -> upstreams] :
                    LET r == WatchlistReply(coins, price, ups)
                    IN  last' = IF Blocks(coins, price, ups)
                                THEN [Call("watchlist", cid, NoCoin, "ok", "", 0)
                                        EXCEPT !.coins = coins, !.status = "blocked"]
                                ELSE [Call("watchlist", cid, NoCoin, "ok", r.reply, Posts)
                                        EXCEPT !.coins = coins, !.lines = r.lines,
                                               !.upstream = ups]
    /\ UNCHANGED <<supabase, TELEGRAM_TOKEN, rows>>

\* a text that starts with '/' and with none of the commands the dispatch tests
OtherCommand(cid) ==
    /\ last' = Call("other", cid, NoCoin, "none", "", 0)
    /\ UNCHANGED <<supabase, TELEGRAM_TOKEN, rows>>

\* a text that does not start with '/': the Gemini conversation
Chat(cid, gemini) ==
    /\ last' = CASE gemini = "text" -> Call("chat", cid, NoCoin, "none", "chat reply", 1)
                 [] gemini = "exception" ->
                        Call("chat", cid, NoCoin, "none", "Sorry, I ran into an error", Posts)
                 [] OTHER -> [Call("chat", cid, NoCoin, "none", "", 0) EXCEPT !.status = "blocked"]
    /\ UNCHANGED <<supabase, TELEGRAM_TOKEN, rows>>

\* the provider behaviours drawn while the webhook's commands interleave
WebUpstream == {"BULLISH", "gemini_exception", "news_no_response"}
WebPrices == {[kind |-> "ok", quoted |-> Coins]}

WebNext ==
    \/ \E cid \in Subscribers : Start(cid)
    \/ \E cid \in Subscribers, coin \in Coins \cup {NoCoin}, up \in WebUpstream :
           SentimentCmd(cid, coin, up)
    \/ \E cid \in Subscribers, coin \in Coins \cup {NoCoin}, resp \in StoreResponses :
           Track(cid, coin, resp)
    \/ \E cid \in Subscribers, coin \in Coins \cup {NoCoin}, resp \in StoreResponses :
           Untrack(cid, coin, resp)
    \/ \E cid \in Subscribers, resp \in StoreResponses, o \in RowOrders :
           Watchlist(cid, resp, o, WebPrices, {"BULLISH", "news_no_response"})
    \/ \E cid \in Subscribers : OtherCommand(cid)
    \/ \E cid \in Subscribers, gemini \in {"text", "exception", "no_response"} :
           Chat(cid, gemini)

(***************************************************************************)
(* cron_job: the 30-minute run, one action per upstream call.              *)
(***************************************************************************)
NoResult == [code |-> 0, error |-> "", users_notified |-> 0]

RECURSIVE IndexOf(_, _, _)
IndexOf(uc, cid, i) ==
    IF i > Len(uc) THEN 0 ELSE IF uc[i].cid = cid THEN i ELSE IndexOf(uc, cid, i + 1)

\* one pass of `for row in all_rows`
AddRow(uc, row) ==
    LET i == IndexOf(uc, row.chat_id, 1)
    IN  IF i = 0 THEN Append(uc, [cid |-> row.chat_id, coins |-> <<row.coin>>])
        ELSE [uc EXCEPT ![i].coins = Append(@, row.coin)]

RECURSIVE GroupInto(_, _)
GroupInto(uc, all_rows) ==
    IF all_rows = <<>> THEN uc ELSE GroupInto(AddRow(uc, Head(all_rows)), Tail(all_rows))

\* user_coins: { chat_id: [coin1, coin2] }, kept in the dict's insertion order
Group(all_rows) == GroupInto(<<>>, all_rows)

CronSnapshotSwallowsError(t, resp, o) ==
    IF resp = "ok"
    THEN [pc |-> "loop", listAll |-> "ok", user_coins |-> Group(SelectAll(t, o)),
          result |-> NoResult]
    ELSE [pc |-> "loop", listAll |-> "failed", user_coins |-> <<>>, result |-> NoResult]

\* select('*').execute() and the grouping; an exception goes to the outer except
CronSnapshot(t, resp, o) ==
    IF resp = "ok"
    THEN [pc |-> "loop", listAll |-> "ok", user_coins |-> Group(SelectAll(t, o)),
          result |-> NoResult]
    ELSE [pc |-> "done", listAll |-> "failed", user_coins |-> <<>>,
          result |-> [code |-> 500, error |-> "Cron job error", users_notified |-> 0]]

DeliveryResponses == {"ok", "http_error", "exception", "no_response"}

SendOutcomeNoInnerTry(d) ==
    CASE d = "exception" -> [pc |-> "abort", notified |-> 0]
      [] d = "no_response" -> [pc |-> "blocked", notified |-> 0]
      [] OTHER -> [pc |-> "loop", notified |-> 1]

\* requests.post inside its own try: it returns (whatever the HTTP status) and the
\* counter moves, or it raises and the failure is printed, or it never returns
SendOutcome(d) ==
    CASE d = "exception" -> [pc |-> "loop", notified |-> 0]
      [] d = "no_response" -> [pc |-> "blocked", notified |-> 0]
      [] OTHER -> [pc |-> "loop", notified |-> 1]

CronStart(resp, o) ==
    /\ cronPc = "idle"
    /\ IF ~supabase \/ ~TELEGRAM_TOKEN
       THEN /\ resp = "ok" /\ o = "asc"
            /\ cronPc' = "done"
            /\ result' = [code |-> 500, error |-> "Config missing", users_notified |-> 0]
            /\ UNCHANGED <<listAll, user_coins>>
       ELSE LET s == CronSnapshot(rows, resp, o)
            IN  /\ resp # "ok" => o = "asc"
                /\ cronPc' = s.pc
                /\ listAll' = s.listAll
                /\ user_coins' = s.user_coins
                /\ result' = s.result
    /\ UNCHANGED <<ui, ci, messages, processed_users, sendLog, sentimentCalls>>
    /\ UNCHANGED webVars

\* sentiment = analyze_sentiment(coin); messages.append(...)
CronSentiment(up) ==
    /\ cronPc = "loop"
    /\ ui <= Len(user_coins)
    /\ ci <= Len(user_coins[ui].coins)
    /\ LET coin == user_coins[ui].coins[ci]
           text == analyze_sentiment(up)
       IN  /\ sentimentCalls' = [sentimentCalls EXCEPT ![coin] = @ + 1]
           /\ IF up \in NoResponse
              THEN /\ cronPc' = "blocked"
                   /\ UNCHANGED <<ci, messages, result>>
              ELSE IF text = "RAISE"
              THEN /\ cronPc' = "done"
                   /\ result' = [code |-> 500, error |-> "Cron job error",
                                 users_notified |-> 0]
                   /\ UNCHANGED <<ci, messages>>
              ELSE /\ messages' = Append(messages, [coin |-> coin, sentiment |-> text])
                   /\ ci' = ci + 1
                   /\ UNCHANGED <<cronPc, result>>
    /\ UNCHANGED <<listAll, user_coins, ui, processed_users, sendLog>>
    /\ UNCHANGED webVars

\* `if not coins: continue`, `if messages:`, and the sendMessage post of one chat
CronSend(d) ==
    /\ cronPc = "loop"
    /\ ui <= Len(user_coins)
    /\ ci > Len(user_coins[ui].coins)
    /\ IF messages = <<>>
       THEN /\ d = "ok"
            /\ ui' = ui + 1 /\ ci' = 1
            /\ UNCHANGED <<cronPc, messages, processed_users, result, sendLog>>
       ELSE LET out == SendOutcome(d)
            IN  /\ sendLog' = [sendLog EXCEPT ![user_coins[ui].cid] = Append(@, d)]
                /\ processed_users' = processed_users + out.notified
                /\ IF out.pc = "loop"
                   THEN /\ ui' = ui + 1 /\ ci' = 1 /\ messages' = <<>>
                        /\ UNCHANGED <<cronPc, result>>
                   ELSE IF out.pc = "blocked"
                   THEN /\ cronPc' = "blocked"
                        /\ UNCHANGED <<ui, ci, messages, result>>
                   ELSE /\ cronPc' = "done"
                        /\ result' = [code |-> 500, error |-> "Cron job error",
                                      users_notified |-> 0]
                        /\ UNCHANGED <<ui, ci, messages>>
    /\ UNCHANGED <<listAll, user_coins, sentimentCalls>>
    /\ UNCHANGED webVars

\* return jsonify({'status': 'ok', 'users_notified': processed_users}), 200
CronFinish ==
    /\ cronPc = "loop"
    /\ ui > Len(user_coins)
    /\ cronPc' = "done"
    /\ result' = [code |-> 200, error |-> "", users_notified |-> processed_users]
    /\ UNCHANGED <<listAll, user_coins, ui, ci, messages, processed_users, sendLog,
                   sentimentCalls>>
    /\ UNCHANGED webVars

CronNext ==
    \/ \E resp \in StoreResponses, o \in RowOrders : CronStart(resp, o)
    \/ \E up \in AggUpstream : CronSentiment(up)
    \/ \E d \in DeliveryResponses : CronSend(d)
    \/ CronFinish

(***************************************************************************)
(* Specifications                                                          *)
(***************************************************************************)
CronIdle ==
    /\ cronPc = "idle" /\ listAll = "none" /\ user_coins = <<>> /\ ui = 1 /\ ci = 1
    /\ messages = <<>> /\ processed_users = 0
    /\ result = NoResult
    /\ sendLog = [s \in Subscribers |-> <<>>]
    /\ sentimentCalls = [c \in Coins |-> 0]

\* the process starts with an empty table; the webhook's commands interleave
Init ==
    /\ supabase \in BOOLEAN
    /\ TELEGRAM_TOKEN \in BOOLEAN
    /\ rows = EmptyTable
    /\ last = NoCall
    /\ CronIdle

Next == WebNext /\ UNCHANGED cronVars

Spec == Init /\ [][Next]_vars

\* any table the commands can have built (at most one row per pair)
InitAnyTable ==
    /\ supabase \in BOOLEAN
    /\ TELEGRAM_TOKEN \in BOOLEAN
    /\ rows \in [Pairs -> {0, 1}]
    /\ last = NoCall
    /\ CronIdle

\* one /watchlist call on any table, the providers behaving in every way
AggNext ==
    /\ last = NoCall
    /\ \E cid \in Subscribers, resp \in StoreResponses, o \in RowOrders :
           Watchlist(cid, resp, o, PriceResponses, AggUpstream)
    /\ UNCHANGED cronVars

AggSpec == InitAnyTable /\ [][AggNext]_vars

\* one run of cron_job over any table
RunSpec == InitAnyTable /\ [][CronNext]_vars

(***************************************************************************)
(* Claims                                                                  *)
(***************************************************************************)
Tracked(cid) == {c \in Coins : rows[<<cid, c>>] > 0}
Elems(seq) == {seq[i] : i \in 1..Len(seq)}
NoDuplicates(seq) == \A i, j \in 1..Len(seq) : seq[i] = seq[j] => i = j
Executed(call, cmd, s, c) ==
    call.cmd = cmd /\ call.chat_id = s /\ call.coin = c /\ call.store = "ok"

\* C1: a /track of (s, c) that the store executes answers "Added" and adds the row when
\* the pair is absent, and answers "already in your watchlist" and leaves the table
\* as it is when the pair is present; so two consecutive /track of the same pair
\* answer Added, then AlreadyPresent, with the same coin set after both, and
\* neither answer is the error text.
C1_TrackTwice ==
    [][\A s \in Subscribers, c \in Coins :
          Executed(last', "track", s, c) =>
              /\ rows[<<s, c>>] = 0 =>
                     /\ last'.reply = "Added to your watchlist."
                     /\ rows' = [rows EXCEPT ![<<s, c>>] = 1]
              /\ rows[<<s, c>>] > 0 =>
                     /\ last'.reply = "is already in your watchlist."
                     /\ rows' = rows
              /\ (Executed(last, "track", s, c) /\ last.reply = "Added to your watchlist.")
                     => (last'.reply = "is already in your watchlist." /\ rows' = rows)
      ]_vars

C1_Witness ==
    /\ last.cmd = "track" /\ last.store = "ok"
    /\ last.reply = "is already in your watchlist."
    /\ rows[<<last.chat_id, last.coin>>] = 1

\* C2: a /untrack of (s, c) that the store executes answers "was not in your
\* watchlist" and leaves the whole table unchanged when the pair is absent, and
\* answers "Removed" and removes that pair and no other when it is present.
C2_Untrack ==
    [][\A s \in Subscribers, c \in Coins :
          Executed(last', "untrack", s, c) =>
              /\ rows[<<s, c>>] = 0 =>
                     /\ last'.reply = "was not in your watchlist."
                     /\ rows' = rows
              /\ rows[<<s, c>>] > 0 =>
                     /\ last'.reply = "Removed from your watchlist."
                     /\ rows' = [rows EXCEPT ![<<s, c>>] = 0]
      ]_vars

C2_Witness ==
    /\ last.cmd = "untrack" /\ last.store = "ok"
    /\ last.reply = "was not in your watchlist."
    /\ Tracked(last.chat_id) # {}

\* C7: whatever way /track, /untrack and the reads interleave, the table holds at most
\* one row per (chat, coin); the snapshot a select('*') returns in that state lists
\* every chat once and lists for it exactly its tracked coins, each once; and the
\* coins a /watchlist read returned are the chat's tracked coins, each once.
C7_OneMembership ==
    /\ \A p \in Pairs : rows[p] <= 1
    /\ \A o \in RowOrders :
           LET uc == Group(SelectAll(rows, o))
           IN  /\ \A i, j \in 1..Len(uc) : uc[i].cid = uc[j].cid => i = j
               /\ {uc[i].cid : i \in 1..Len(uc)} = {s \in Subscribers : Tracked(s) # {}}
               /\ \A i \in 1..Len(uc) :
                      /\ NoDuplicates(uc[i].coins)
                      /\ Elems(uc[i].coins) = Tracked(uc[i].cid)
    /\ (last.cmd = "watchlist" /\ last.store = "ok") =>
           /\ NoDuplicates(last.coins)
           /\ Elems(last.coins) = Tracked(last.chat_id)

C7_Witness ==
    /\ last.cmd = "watchlist" /\ last.store = "ok" /\ Len(last.coins) = 2
    /\ \E s \in Subscribers : s # last.chat_id /\ Tracked(s) = {1}

\* C8: with the bot token configured, every handled message whose text starts with
\* '/' is answered with exactly one sendMessage post.
C8_EveryCommandAnswered ==
    (TELEGRAM_TOKEN /\ last.status = "200"
        /\ last.cmd \in {"start", "sentiment", "track", "untrack", "watchlist", "other"})
    => last.sent = 1

\* C5: a /watchlist call that read a non-empty coin list and whose providers all
\* answered sends the assembled message, never the error text; the message has
\* exactly one line per tracked coin; the line of a coin whose sentiment provider
\* failed carries an Error text, and the line of every other coin carries the
\* verdict the provider gave for it.
C5_OneLinePerCoin ==
    (last.cmd = "watchlist" /\ last.store = "ok" /\ last.status = "200"
        /\ last.coins # <<>>)
    => /\ last.reply = "Your Watchlist"
       /\ Len(last.lines) = Cardinality(Tracked(last.chat_id))
       /\ \A c \in Tracked(last.chat_id) :
              Cardinality({i \in 1..Len(last.lines) : last.lines[i].coin = c}) = 1
       /\ \A i \in 1..Len(last.lines) :
              IF last.upstream[i] \in Failures
              THEN last.lines[i].sentiment \in ErrorTexts
              ELSE last.lines[i].sentiment = last.upstream[i]

C5_Witness ==
    /\ last.cmd = "watchlist" /\ last.reply = "Your Watchlist"
    /\ Len(last.lines) = 2
    /\ last.lines[1].sentiment \in ErrorTexts
    /\ last.lines[2].sentiment = "BULLISH"
    /\ last.lines[2].emoji = "green"

Attempts(s) == Len(sendLog[s])

\* C3: every chat of the snapshot the loop has passed got its delivery attempt,
\* whatever happened to the deliveries before it, and a run that read its snapshot
\* ends only after the last chat, with status ok: a failed delivery does not end it.
C3_FailureIsolated ==
    /\ \A i \in 1..Len(user_coins) : i < ui => Attempts(user_coins[i].cid) = 1
    /\ (cronPc = "done" /\ listAll = "ok") =>
           /\ result.code = 200
           /\ ui > Len(user_coins)

C3_Witness ==
    /\ cronPc = "done" /\ Len(user_coins) >= 2
    /\ sendLog[user_coins[1].cid] = <<"exception">>
    /\ Attempts(user_coins[2].cid) = 1

\* C4: in one run analyze_sentiment is called at most once per coin.
C4_OncePerCoin == \A c \in Coins : sentimentCalls[c] <= 1

\* C6: when the read of all subscriptions fails, the run has ended with the failure
\* answer (HTTP 500) and no sendMessage and no analyze_sentiment call was made.
C6_NoFanOutAfterFailedRead ==
    listAll = "failed" =>
        /\ cronPc = "done"
        /\ result.code = 500
        /\ \A s \in Subscribers : Attempts(s) = 0
        /\ \A c \in Coins : sentimentCalls[c] = 0

C6_Witness ==
    /\ listAll = "failed" /\ cronPc = "done"
    /\ \A s \in Subscribers : Tracked(s) # {}

\* C9: a run that has started and has not ended can take its next step: no
\* upstream call leaves it waiting without end.
C9_RunTerminates == cronPc = "done" \/ ENABLED CronNext

\* C10: a run posts sendMessage at most once per chat, exactly once for every chat of
\* the snapshot when it ends, and users_notified counts the chats whose delivery
\* succeeded and no other.
C10_OneSendCountedIfDelivered ==
    /\ \A s \in Subscribers : Attempts(s) <= 1
    /\ (cronPc = "done" /\ result.code = 200) =>
           \A s \in Subscribers : Attempts(s) = (IF Tracked(s) # {} THEN 1 ELSE 0)
    /\ processed_users = Cardinality({s \in Subscribers : sendLog[s] = <<"ok">>})

\* what a line of the run's message holds, f"**{coin.upper()}**: {sentiment}": the coin
\* and the sentiment text, and neither an emoji nor a price
CronLineContent(m) ==
    [coin |-> m.coin, emoji |-> "none", price |-> "none", sentiment |-> m.sentiment]

\* the sentiment text the run got for coin c of the chat it is processing
CronTextOf(c) == messages[CHOOSE i \in 1..Len(messages) : messages[i].coin = c].sentiment

\* C11: when the run has assembled the message of a chat, the lines /watchlist builds
\* for that chat from the same table and the same provider answers (the same sentiment
\* text per coin, any answer of the price provider) are the run's lines: the same
\* coins in the same order, each with the same sentiment and price content.
C11_SameBodyAsWatchlist ==
    (cronPc = "loop" /\ ui <= Len(user_coins) /\ ci > Len(user_coins[ui].coins))
    => \A o \in RowOrders, price \in PriceResponses :
           LET coins == SelectCoins(rows, user_coins[ui].cid, o)
           IN  \A ups \in [1..Len(coins) -> AggUpstream \ NoResponse] :
                   (/\ price.kind # "no_response"
                    /\ \A i \in 1..Len(coins) :
                           analyze_sentiment(ups[i]) = CronTextOf(sorted(coins)[i]))
                   => WatchlistReply(coins, price, ups).lines
                          = [i \in 1..Len(messages) |-> CronLineContent(messages[i])]

====
